---- MODULE Spec2Model ----
(***************************************************************************)
(* batch_run.py: a parameter sweep.  main() writes the CSV header, builds  *)
(* the list of (lambda, tau) tuples, submits one run_benchmark call per    *)
(* tuple to a ThreadPoolExecutor of args.threads workers, then walks the   *)
(* list of futures in submission order and appends one row per truthy      *)
(* result.                                                                 *)
(*                                                                         *)
(* Threads: the main thread (id MainThread) and the pool's worker threads  *)
(* (ids 1, 2, ...).  A text is a sequence of atoms; the atoms ",", " ",    *)
(* "\n" and "\"" are the characters the code treats specially, every other *)
(* atom stands for a run of ordinary characters.                           *)
(***************************************************************************)
EXTENDS Integers, Sequences, FiniteSets, TLC

\* ---------------------------------------------------------------- bounds
\* Number of values of the first dimension (lambdas) tried.
MaxLambdas == 2
\* Number of values of the second dimension (taus) tried.
MaxTaus == 3
\* Largest number of tuples of a sweep.
MaxTuples == 3
\* Largest --threads value tried.
MaxThreads == 2

\* Number of values per dimension tried when only the grid is built and
\* dispatched (GridSpec).
MaxGridLambdas == 3
MaxGridTaus == 3

\* Longest standard output tried when only the collection loop runs
\* (SinkSpec).
MaxTextLen == 3

\* ------------------------------------------------------ program constants
\* lambdas = [40]: the first value of the first dimension.
LambdaStart == 40
\* taus = range(10, 11): the first value of the second dimension.
TauStart == 10
\* The thread that runs main().
MainThread == 0

\* The header row, one text per field.
HeaderFields ==
    << <<"lambda">>, <<"tau">>, <<"t_open_1_8">>, <<"t_open_1_4">>, <<"t_open_1_2">> >>

\* ------------------------------------------------------------ pure helpers
\* range(a, b)
Range(a, b) == [j \in 1..(IF b > a THEN b - a ELSE 0) |-> a + j - 1]

\* for tau in taus: param_combinations.append((csp, tau))
RECURSIVE InnerLoop(_, _, _)
InnerLoop(acc, csp, ts) ==
    IF ts = <<>> THEN acc
    ELSE InnerLoop(Append(acc, <<csp, Head(ts)>>), csp, Tail(ts))

\* for csp in lambdas: for tau in taus: ...
RECURSIVE OuterLoop(_, _, _)
OuterLoop(acc, ls, ts) ==
    IF ls = <<>> THEN acc
    ELSE OuterLoop(InnerLoop(acc, Head(ls), ts), Tail(ls), ts)

\* The two loops nested the other way round: the first dimension varies
\* fastest.
ParamCombinationsTauOuter(ls, ts) ==
    [n \in 1..(Len(ls) * Len(ts)) |->
        <<ls[((n - 1) % Len(ls)) + 1], ts[((n - 1) \div Len(ls)) + 1]>>]

\* The list of tuples main() builds.
ParamCombinations(ls, ts) == OuterLoop(<<>>, ls, ts)

\* Characters str.strip() removes.
Whitespace == {" ", "\n"}

RECURSIVE LStrip(_)
LStrip(s) == IF s # <<>> /\ Head(s) \in Whitespace THEN LStrip(Tail(s)) ELSE s

RECURSIVE RStrip(_)
RStrip(s) ==
    IF s # <<>> /\ s[Len(s)] \in Whitespace
    THEN RStrip(SubSeq(s, 1, Len(s) - 1))
    ELSE s

\* Removal of one line break at the end and of nothing else.
StripTrailingNewline(s) ==
    IF s # <<>> /\ s[Len(s)] = "\n" THEN SubSeq(s, 1, Len(s) - 1) ELSE s

\* result.strip()
Strip(s) == RStrip(LStrip(s))

\* text.split(','): cur is the field being read, acc the fields read so far.
RECURSIVE SplitFrom(_, _, _)
SplitFrom(s, cur, acc) ==
    IF s = <<>> THEN Append(acc, cur)
    ELSE IF Head(s) = "," THEN SplitFrom(Tail(s), <<>>, Append(acc, cur))
    ELSE SplitFrom(Tail(s), Append(cur, Head(s)), acc)

Split(s) == SplitFrom(s, <<>>, <<>>)

\* csv.writer quotes a field that holds the delimiter, the quote character or
\* a line break (QUOTE_MINIMAL), doubling the quote characters in it.
NeedsQuote(field) == \E n \in 1..Len(field) : field[n] \in {",", "\"", "\n"}

RECURSIVE DoubleQuotes(_)
DoubleQuotes(field) ==
    IF field = <<>> THEN <<>>
    ELSE (IF Head(field) = "\"" THEN <<"\"", "\"">> ELSE <<Head(field)>>)
         \o DoubleQuotes(Tail(field))

QuoteField(field) ==
    IF NeedsQuote(field) THEN <<"\"">> \o DoubleQuotes(field) \o <<"\"">>
    ELSE field

RECURSIVE JoinFields(_)
JoinFields(fields) ==
    IF fields = <<>> THEN <<>>
    ELSE IF Len(fields) = 1 THEN QuoteField(fields[1])
    ELSE QuoteField(Head(fields)) \o <<",">> \o JoinFields(Tail(fields))

\* writer.writerow(fields): the text of the line written, without its line
\* terminator.  A row of one empty field is written as "".
FormatRow(fields) ==
    IF fields = << <<>> >> THEN <<"\"", "\"">> ELSE JoinFields(fields)

\* The header line as it stands in the file.
HeaderLine == FormatRow(HeaderFields)

\* str(n) for n >= 0: the decimal digits of n.
Digit(d) ==
    CASE d = 0 -> "0" [] d = 1 -> "1" [] d = 2 -> "2" [] d = 3 -> "3"
      [] d = 4 -> "4" [] d = 5 -> "5" [] d = 6 -> "6" [] d = 7 -> "7"
      [] d = 8 -> "8" [] d = 9 -> "9"

RECURSIVE Str(_)
Str(n) == IF n < 10 THEN <<Digit(n)>> ELSE Append(Str(n \div 10), Digit(n % 10))

\* cmd = [str(benchmark_bin), str(lambda_val), str(tau)]
Cmd(tuple) == << <<"benchmark_bin">>, Str(tuple[1]), Str(tuple[2]) >>

\* What run_benchmark returns: None, or the captured standard output.
None == [isNone |-> TRUE, text |-> <<>>]
Text(t) == [isNone |-> FALSE, text |-> t]

\* A test `if result is not None`, which lets the empty text through.
TruthyNotNone(r) == ~r.isNone

\* Python truth of a returned value: None and '' are false.
Truthy(r) == ~r.isNone /\ r.text # <<>>

\* The line a well-behaved benchmark prints for cmd: its two arguments and
\* its timings.
DataLine(cmd) == cmd[2] \o <<",">> \o cmd[3] \o <<",", "1.1", ",", "2.2", ",", "3.3">>

\* Standard outputs the child process started as cmd may produce: nothing, a
\* bare line break, or its data line.
Stdouts(cmd) == { <<>>, <<"\n">>, Append(DataLine(cmd), "\n") }

\* What the child process started as cmd may do: exit 0, exit non-zero, run
\* into the timeout, or fail to launch.
Behaviours(cmd) ==
    [kind : {"exit0"}, stdout : Stdouts(cmd)]
    \cup [kind : {"nonzero", "timeout", "oserror"}, stdout : {<<>>}]

\* run_benchmark with only `except subprocess.CalledProcessError`: the
\* timeout and the launch error leave the function as exceptions.
RunBenchmarkTimeoutRaises(tuple, beh) ==
    CASE beh.kind = "exit0" ->
           [ret |-> Text(beh.stdout), raises |-> FALSE, printed |-> <<>>]
      [] beh.kind = "nonzero" ->
           [ret |-> None, raises |-> FALSE,
            printed |-> << [msg |-> "Error running", cmd |-> Cmd(tuple),
                            text |-> "stderr"] >>]
      [] OTHER ->
           [ret |-> None, raises |-> TRUE, printed |-> <<>>]

\* run_benchmark without its try/except: every failure leaves the function
\* as an exception.
RunBenchmarkNoExcept(tuple, beh) ==
    IF beh.kind = "exit0"
    THEN [ret |-> Text(beh.stdout), raises |-> FALSE, printed |-> <<>>]
    ELSE [ret |-> None, raises |-> TRUE, printed |-> <<>>]

\* run_benchmark that treats an empty standard output as an error: it prints
\* a message and returns None.
RunBenchmarkReportsEmpty(tuple, beh) ==
    CASE beh.kind = "exit0" /\ beh.stdout # <<>> ->
           [ret |-> Text(beh.stdout), raises |-> FALSE, printed |-> <<>>]
      [] beh.kind = "exit0" /\ beh.stdout = <<>> ->
           [ret |-> None, raises |-> FALSE,
            printed |-> << [msg |-> "Unexpected error with", cmd |-> Cmd(tuple),
                            text |-> "empty"] >>]
      [] beh.kind = "nonzero" ->
           [ret |-> None, raises |-> FALSE,
            printed |-> << [msg |-> "Error running", cmd |-> Cmd(tuple),
                            text |-> "stderr"] >>]
      [] OTHER ->
           [ret |-> None, raises |-> FALSE,
            printed |-> << [msg |-> "Unexpected error with", cmd |-> Cmd(tuple),
                            text |-> beh.kind] >>]

\* run_benchmark whose `except Exception` branch returns None without
\* printing.
RunBenchmarkSilent(tuple, beh) ==
    CASE beh.kind = "exit0" ->
           [ret |-> Text(beh.stdout), raises |-> FALSE, printed |-> <<>>]
      [] beh.kind = "nonzero" ->
           [ret |-> None, raises |-> FALSE,
            printed |-> << [msg |-> "Error running", cmd |-> Cmd(tuple),
                            text |-> "stderr"] >>]
      [] OTHER ->
           [ret |-> None, raises |-> FALSE, printed |-> <<>>]

\* run_benchmark(lambda_val, tau, benchmark_bin) for a child that behaves as
\* beh: the value returned, whether an exception leaves the function, and
\* the lines printed.
RunBenchmark(tuple, beh) ==
    CASE beh.kind = "exit0" ->
           [ret |-> Text(beh.stdout), raises |-> FALSE, printed |-> <<>>]
      [] beh.kind = "nonzero" ->
           [ret |-> None, raises |-> FALSE,
            printed |-> << [msg |-> "Error running", cmd |-> Cmd(tuple),
                            text |-> "stderr"] >>]
      [] OTHER ->
           [ret |-> None, raises |-> FALSE,
            printed |-> << [msg |-> "Unexpected error with", cmd |-> Cmd(tuple),
                            text |-> beh.kind] >>]

\* ------------------------------------------------------------------ state
VARIABLES
    lambdas,            \* the values of the first dimension
    taus,               \* the values of the second dimension
    threads,            \* args.threads
    pathOk,             \* whether the output directory can be created
    pc,                 \* where the main thread stands in main()
    param_combinations, \* the list of tuples
    futures,            \* the list of futures, in submission order
    queue,              \* the pool's FIFO work queue (indices into futures)
    workers,            \* per worker thread: i when it runs future i, -i when
                        \* it has taken future i and not started it, 0 when idle
    k,                  \* number of iterations of the collection loop begun
    cur,                \* index of the future the collection loop holds
    result,             \* result = future.result()
    raised,             \* an exception is unwinding main()
    exitCode,           \* process exit status, -1 while running
    disk,               \* the lines of the output file
    buf,                \* lines written through the append handle, not flushed
    fileOpen,           \* the append handle is open
    log,                \* the lines printed on standard output
    hist                \* history: per future, how often it was started, what
                        \* its child did, who wrote which row

vars == << lambdas, taus, threads, pathOk, pc, param_combinations, futures,
           queue, workers, k, cur, result, raised, exitCode, disk, buf,
           fileOpen, log, hist >>

inputs == << lambdas, taus, threads, pathOk >>
poolVars == << futures, queue, workers >>
fileVars == << disk, buf, fileOpen >>

\* A line left in the output file by an earlier run.
OldLine == <<"old">>

\* History: invoked[i] counts the starts of future i, kind[i] is what its
\* child did ("" while unresolved), overtaken holds the futures that finished
\* after a future submitted later had finished, rowSrc[n] is the future whose result is
\* data row n, writers[n] is the thread of the n-th write to the file, and
\* consumed is the set of futures whose result() has returned.
NoHist == [invoked |-> <<>>, kind |-> <<>>, overtaken |-> {}, rowSrc |-> <<>>,
           writers |-> <<>>, consumed |-> {}]

Init ==
    /\ \E nl \in 1..MaxLambdas, nt \in 0..MaxTaus :
         /\ nl * nt <= MaxTuples
         /\ lambdas = Range(LambdaStart, LambdaStart + nl)
         /\ taus = Range(TauStart, TauStart + nt)
    /\ threads \in 0..MaxThreads
    /\ pathOk \in BOOLEAN
    /\ disk \in {<<>>, <<OldLine>>}
    /\ pc = "mkdir"
    /\ param_combinations = <<>>
    /\ futures = <<>>
    /\ queue = <<>>
    /\ workers = <<>>
    /\ k = 0
    /\ cur = 0
    /\ result = None
    /\ raised = FALSE
    /\ exitCode = -1
    /\ buf = <<>>
    /\ fileOpen = FALSE
    /\ log = <<>>
    /\ hist = NoHist

\* ------------------------------------------------------------ main thread
\* csv_path.parent.mkdir(parents=True, exist_ok=True)
Mkdir ==
    /\ pc = "mkdir"
    /\ IF pathOk
       THEN pc' = "header" /\ UNCHANGED exitCode
       ELSE pc' = "exit" /\ exitCode' = 1
    /\ UNCHANGED << inputs, param_combinations, poolVars, k, cur, result,
                    raised, fileVars, log, hist >>

\* The header written through a handle opened in append mode.
WriteHeaderAppendMode ==
    /\ pc = "header"
    /\ disk' = Append(disk, HeaderLine)
    /\ hist' = [hist EXCEPT !.writers = Append(@, MainThread)]
    /\ pc' = "grid"
    /\ UNCHANGED << inputs, param_combinations, poolVars, k, cur, result,
                    raised, exitCode, buf, fileOpen, log >>

\* with csv_path.open('w', newline='') as f: writer.writerow([...])
WriteHeader ==
    /\ pc = "header"
    /\ disk' = <<HeaderLine>>
    /\ hist' = [hist EXCEPT !.writers = Append(@, MainThread)]
    /\ pc' = "grid"
    /\ UNCHANGED << inputs, param_combinations, poolVars, k, cur, result,
                    raised, exitCode, buf, fileOpen, log >>

\* The two nested loops that fill param_combinations.
BuildGrid ==
    /\ pc = "grid"
    /\ param_combinations' = ParamCombinations(lambdas, taus)
    /\ pc' = "executor"
    /\ UNCHANGED << inputs, poolVars, k, cur, result, raised, exitCode,
                    fileVars, log, hist >>

\* with ThreadPoolExecutor(max_workers=args.threads) as executor:
\* a worker count below 1 raises ValueError.
CreateExecutor ==
    /\ pc = "executor"
    /\ IF threads <= 0
       THEN pc' = "exit" /\ exitCode' = 1
       ELSE /\ pc' = IF param_combinations = <<>> THEN "open" ELSE "submit"
            /\ UNCHANGED exitCode
    /\ UNCHANGED << inputs, param_combinations, poolVars, k, cur, result,
                    raised, fileVars, log, hist >>

\* What the pool does about its threads on a submit, as a mutation would:
\* a thread per task.
SpawnUnbounded(ws) == Append(ws, 0)

\* What the pool does about its threads on a submit: it starts another
\* worker thread while fewer than max_workers exist.
AdjustThreadCount(ws) == IF Len(ws) < threads THEN Append(ws, 0) ELSE ws

\* futures.append(executor.submit(run_benchmark, lambda_val, tau, ...))
Submit ==
    /\ pc = "submit"
    /\ LET i == Len(futures) + 1 IN
         /\ futures' = Append(futures,
                              [state |-> "PENDING", result |-> None, exc |-> FALSE])
         /\ queue' = Append(queue, i)
         /\ workers' = AdjustThreadCount(workers)
         /\ hist' = [hist EXCEPT !.invoked = Append(@, 0), !.kind = Append(@, "")]
         /\ pc' = IF i = Len(param_combinations) THEN "open" ELSE "submit"
    /\ UNCHANGED << inputs, param_combinations, k, cur, result, raised,
                    exitCode, fileVars, log >>

\* The file reopened in write mode for the rows: the header is lost.
OpenAppendTruncates ==
    /\ pc = "open"
    /\ fileOpen' = TRUE
    /\ disk' = <<>>
    /\ buf' = <<>>
    /\ k' = 1
    /\ pc' = IF futures = <<>> THEN "close" ELSE "result"
    /\ UNCHANGED << inputs, param_combinations, poolVars, cur, result, raised,
                    exitCode, log, hist >>

\* with csv_path.open('a', newline='') as f: writer = csv.writer(f)
OpenAppend ==
    /\ pc = "open"
    /\ fileOpen' = TRUE
    /\ buf' = <<>>
    /\ k' = 1
    /\ pc' = IF futures = <<>> THEN "close" ELSE "result"
    /\ UNCHANGED << inputs, param_combinations, poolVars, cur, result, raised,
                    exitCode, disk, log, hist >>

\* Where the collection loop goes after iteration k.
AfterIteration == IF k + 1 > Len(futures) THEN "close" ELSE "result"

\* result = future.result() for the future at index j, then `if result:`.
\* result() blocks until the future is finished and re-raises what the call
\* raised.
ResultOf(j) ==
    /\ futures[j].state = "FINISHED"
    /\ cur' = j
    /\ hist' = [hist EXCEPT !.consumed = @ \cup {j}]
    /\ IF futures[j].exc
       THEN /\ raised' = TRUE
            /\ pc' = "close"
            /\ UNCHANGED << result, k >>
       ELSE /\ result' = futures[j].result
            /\ UNCHANGED raised
            /\ IF Truthy(futures[j].result)
               THEN pc' = "writerow" /\ UNCHANGED k
               ELSE pc' = AfterIteration /\ k' = k + 1

\* A collection loop that takes the futures as they complete.
FutureResultAsCompleted ==
    /\ pc = "result"
    /\ \E j \in (1..Len(futures)) \ hist.consumed : ResultOf(j)
    /\ UNCHANGED << inputs, param_combinations, poolVars, exitCode, fileVars, log >>

\* A collection loop that skips a future that is not finished yet.
FutureResultNoWait ==
    /\ pc = "result"
    /\ IF futures[k].state = "FINISHED"
       THEN ResultOf(k)
       ELSE /\ pc' = AfterIteration
            /\ k' = k + 1
            /\ UNCHANGED << cur, result, raised, hist >>
    /\ UNCHANGED << inputs, param_combinations, poolVars, exitCode, fileVars, log >>

\* for future in futures: result = future.result(); if result:
FutureResult ==
    /\ pc = "result"
    /\ ResultOf(k)
    /\ UNCHANGED << inputs, param_combinations, poolVars, exitCode, fileVars, log >>

\* writer.writerow(result.strip().split(','))
WriteRow ==
    /\ pc = "writerow"
    /\ buf' = Append(buf, FormatRow(Split(Strip(result.text))))
    /\ hist' = [hist EXCEPT !.rowSrc = Append(@, cur),
                            !.writers = Append(@, MainThread)]
    /\ pc' = "flush"
    /\ UNCHANGED << inputs, param_combinations, poolVars, k, cur, result,
                    raised, exitCode, disk, fileOpen, log >>

\* The loop without f.flush(): the row stays in the handle's buffer.
FlushOmitted ==
    /\ pc = "flush"
    /\ pc' = AfterIteration
    /\ k' = k + 1
    /\ UNCHANGED << inputs, param_combinations, poolVars, cur, result, raised,
                    exitCode, fileVars, log, hist >>

\* f.flush(), and on to the next future
Flush ==
    /\ pc = "flush"
    /\ disk' = disk \o buf
    /\ buf' = <<>>
    /\ pc' = AfterIteration
    /\ k' = k + 1
    /\ UNCHANGED << inputs, param_combinations, poolVars, cur, result, raised,
                    exitCode, fileOpen, log, hist >>

\* Leaving `with csv_path.open('a') as f`: the handle is flushed and closed.
CloseFile ==
    /\ pc = "close"
    /\ disk' = disk \o buf
    /\ buf' = <<>>
    /\ fileOpen' = FALSE
    /\ pc' = "shutdown"
    /\ UNCHANGED << inputs, param_combinations, poolVars, k, cur, result,
                    raised, exitCode, log, hist >>

\* Leaving `with ThreadPoolExecutor(...) as executor`: shutdown(wait=True)
\* returns when the queue is drained and every worker is done; then main()
\* returns, or the exception that unwound it ends the process.
Shutdown ==
    /\ pc = "shutdown"
    /\ queue = <<>>
    /\ \A w \in DOMAIN workers : workers[w] = 0
    /\ pc' = "exit"
    /\ exitCode' = IF raised THEN 1 ELSE 0
    /\ UNCHANGED << inputs, param_combinations, poolVars, k, cur, result,
                    raised, fileVars, log, hist >>

\* ---------------------------------------------------------- worker threads
\* An idle worker that takes the newest queued work item.
TakeWorkLifo(w) ==
    /\ w \in DOMAIN workers
    /\ workers[w] = 0
    /\ queue # <<>>
    /\ queue' = SubSeq(queue, 1, Len(queue) - 1)
    /\ workers' = [workers EXCEPT ![w] = 0 - queue[Len(queue)]]
    /\ UNCHANGED << inputs, pc, param_combinations, futures, k, cur, result,
                    raised, exitCode, fileVars, log, hist >>

\* An idle worker takes the oldest queued work item (the pool's queue is
\* first-in-first-out).
TakeWork(w) ==
    /\ w \in DOMAIN workers
    /\ workers[w] = 0
    /\ queue # <<>>
    /\ queue' = Tail(queue)
    /\ workers' = [workers EXCEPT ![w] = 0 - Head(queue)]
    /\ UNCHANGED << inputs, pc, param_combinations, futures, k, cur, result,
                    raised, exitCode, fileVars, log, hist >>

\* The worker runs the work item it took: the future becomes RUNNING,
\* run_benchmark is called and the child process starts.  Workers that hold
\* work items reach this point in any order.
StartInvocation(w) ==
    /\ w \in DOMAIN workers
    /\ workers[w] < 0
    /\ LET i == 0 - workers[w] IN
         /\ futures' = [futures EXCEPT ![i].state = "RUNNING"]
         /\ workers' = [workers EXCEPT ![w] = i]
         /\ hist' = [hist EXCEPT !.invoked[i] = @ + 1]
    /\ UNCHANGED << inputs, pc, param_combinations, queue, k, cur, result,
                    raised, exitCode, fileVars, log >>

\* {i} when a future submitted after i is already finished, else {}.
Overtaken(i) ==
    IF \E j \in DOMAIN futures : j > i /\ futures[j].state = "FINISHED"
    THEN {i} ELSE {}

\* A pool that cancels what is still queued when an invocation fails.
FinishCancelsPending(w, beh) ==
    LET i == workers[w]
        r == RunBenchmark(param_combinations[i], beh)
        failed == r.ret.isNone
        queued == {queue[n] : n \in DOMAIN queue}
    IN  /\ futures' = [j \in DOMAIN futures |->
                         IF j = i
                         THEN [state |-> "FINISHED", result |-> r.ret,
                               exc |-> r.raises]
                         ELSE IF failed /\ j \in queued
                         THEN [futures[j] EXCEPT !.state = "CANCELLED"]
                         ELSE futures[j]]
        /\ queue' = IF failed THEN <<>> ELSE queue
        /\ workers' = [workers EXCEPT ![w] = 0]
        /\ log' = log \o r.printed
        /\ hist' = [hist EXCEPT !.kind[i] = beh.kind, !.overtaken = @ \cup Overtaken(i)]
        /\ UNCHANGED fileVars

\* A worker that puts a failed invocation back on the queue.
FinishRetries(w, beh) ==
    LET i == workers[w]
        r == RunBenchmark(param_combinations[i], beh)
    IN  /\ IF r.ret.isNone
           THEN /\ futures' = [futures EXCEPT ![i].state = "PENDING"]
                /\ queue' = Append(queue, i)
                /\ UNCHANGED hist
           ELSE /\ futures' = [futures EXCEPT
                                 ![i] = [state |-> "FINISHED", result |-> r.ret,
                                         exc |-> r.raises]]
                /\ hist' = [hist EXCEPT !.kind[i] = beh.kind,
                                        !.overtaken = @ \cup Overtaken(i)]
                /\ UNCHANGED queue
        /\ workers' = [workers EXCEPT ![w] = 0]
        /\ log' = log \o r.printed
        /\ UNCHANGED fileVars

\* A worker that appends the row of its own invocation to the file.
FinishWritesRow(w, beh) ==
    LET i == workers[w]
        r == RunBenchmark(param_combinations[i], beh)
    IN  /\ futures' = [futures EXCEPT
                         ![i] = [state |-> "FINISHED", result |-> None,
                                 exc |-> r.raises]]
        /\ workers' = [workers EXCEPT ![w] = 0]
        /\ log' = log \o r.printed
        /\ IF Truthy(r.ret)
           THEN /\ disk' = Append(disk, FormatRow(Split(Strip(r.ret.text))))
                /\ hist' = [hist EXCEPT !.kind[i] = beh.kind,
                                        !.overtaken = @ \cup Overtaken(i),
                                        !.writers = Append(@, w)]
           ELSE /\ UNCHANGED disk
                /\ hist' = [hist EXCEPT !.kind[i] = beh.kind,
                                        !.overtaken = @ \cup Overtaken(i)]
        /\ UNCHANGED << queue, buf, fileOpen >>

\* The child of worker w ends as beh; run_benchmark returns and the pool
\* stores what it returned (or raised) in the future.
Finish(w, beh) ==
    LET i == workers[w]
        r == RunBenchmark(param_combinations[i], beh)
    IN  /\ futures' = [futures EXCEPT
                         ![i] = [state |-> "FINISHED", result |-> r.ret,
                                 exc |-> r.raises]]
        /\ workers' = [workers EXCEPT ![w] = 0]
        /\ log' = log \o r.printed
        /\ hist' = [hist EXCEPT !.kind[i] = beh.kind, !.overtaken = @ \cup Overtaken(i)]
        /\ UNCHANGED << queue, fileVars >>

FinishInvocation(w) ==
    /\ w \in DOMAIN workers
    /\ workers[w] > 0
    /\ \E beh \in Behaviours(Cmd(param_combinations[workers[w]])) : Finish(w, beh)
    /\ UNCHANGED << inputs, pc, param_combinations, k, cur, result, raised,
                    exitCode >>

\* ------------------------------------------------------------ specification
MainStep ==
    \/ Mkdir
    \/ WriteHeader
    \/ BuildGrid
    \/ CreateExecutor
    \/ Submit
    \/ OpenAppend
    \/ FutureResult
    \/ WriteRow
    \/ Flush
    \/ CloseFile
    \/ Shutdown

WorkerStep(w) == TakeWork(w) \/ StartInvocation(w) \/ FinishInvocation(w)

Next == MainStep \/ \E w \in DOMAIN workers : WorkerStep(w)

Spec == Init /\ [][Next]_vars

\* The scheduler does not stop while a thread can run, and every child
\* process ends (it exits or hits its timeout): while some step is possible,
\* a step is taken.
FairSpec == Spec /\ WF_vars(Next)

\* The main thread up to the end of dispatch, for grids of up to
\* MaxGridLambdas x MaxGridTaus tuples, before any worker is scheduled: the
\* parameter space is compiled into main() (lines 49-50), here any two ranges.
GridInit ==
    /\ \E nl \in 0..MaxGridLambdas, nt \in 0..MaxGridTaus :
         /\ lambdas = Range(LambdaStart, LambdaStart + nl)
         /\ taus = Range(TauStart, TauStart + nt)
    /\ threads \in 1..MaxThreads
    /\ pathOk = TRUE
    /\ disk \in {<<>>, <<OldLine>>}
    /\ pc = "mkdir"
    /\ param_combinations = <<>>
    /\ futures = <<>>
    /\ queue = <<>>
    /\ workers = <<>>
    /\ k = 0
    /\ cur = 0
    /\ result = None
    /\ raised = FALSE
    /\ exitCode = -1
    /\ buf = <<>>
    /\ fileOpen = FALSE
    /\ log = <<>>
    /\ hist = NoHist

GridNext == Mkdir \/ WriteHeader \/ BuildGrid \/ CreateExecutor \/ Submit

GridSpec == GridInit /\ [][GridNext]_vars

\* What a standard output is made of: a letter, the delimiter, a blank, a
\* line break, the quote character.
TextAtoms == {"a", ",", " ", "\n", "\""}

\* The standard outputs tried in SinkSpec: every text of up to MaxTextLen
\* atoms, and the data line of (40, 10) with and without its line break.
SinkTexts ==
    UNION {[1..m -> TextAtoms] : m \in 0..MaxTextLen}
    \cup {DataLine(Cmd(<<LambdaStart, TauStart>>)),
          Append(DataLine(Cmd(<<LambdaStart, TauStart>>)), "\n")}

\* The collection loop alone: the single tuple (40, 10) of lines 49-50 has
\* been submitted to a pool of one worker, its child has exited with status
\* 0 after printing any text of SinkTexts, the header is in the file and the
\* append handle is open (lines 84-85); main() is about to call result().
SinkInit ==
    /\ lambdas = <<LambdaStart>>
    /\ taus = <<TauStart>>
    /\ threads = 1
    /\ pathOk = TRUE
    /\ pc = "result"
    /\ param_combinations = ParamCombinations(lambdas, taus)
    /\ \E t \in SinkTexts :
          futures = << [state |-> "FINISHED", result |-> Text(t), exc |-> FALSE] >>
    /\ queue = <<>>
    /\ workers = <<0>>
    /\ k = 1
    /\ cur = 0
    /\ result = None
    /\ raised = FALSE
    /\ exitCode = -1
    /\ disk = <<HeaderLine>>
    /\ buf = <<>>
    /\ fileOpen = TRUE
    /\ log = <<>>
    /\ hist = [NoHist EXCEPT !.invoked = <<1>>, !.kind = <<"exit0">>,
                             !.writers = <<MainThread>>]

SinkNext == FutureResult \/ WriteRow \/ Flush \/ CloseFile \/ Shutdown

SinkSpec == SinkInit /\ [][SinkNext]_vars

\* -------------------------------------------------------------- vocabulary
\* The header has been written by this run.
HeaderWritten == hist.writers # <<>>

\* The data rows the output file holds (flushed or not).
DataRows == IF HeaderWritten THEN Tail(disk \o buf) ELSE <<>>

\* The sweep is over: main() has returned or died.
SweepOver == pc = "exit"

\* The sweep ran: the output directory and the pool could be created.
SweepRan == pathOk /\ threads >= 1

Submitted == 1..Len(futures)

Resolved(i) == futures[i].state = "FINISHED"

InFlight == {i \in Submitted : futures[i].state = "RUNNING"}

FailureKinds == {"nonzero", "timeout", "oserror"}

\* Invocation i ended in a Failure.
Failed(i) == hist.kind[i] \in FailureKinds

\* Invocation i succeeded: exit status 0, no exception, no timeout.
Succeeded(i) == hist.kind[i] = "exit0"

\* Invocation i succeeded and printed something.
SucceededWithOutput(i) == Succeeded(i) /\ futures[i].result.text # <<>>

\* The row a successful invocation i leaves in the file: its data line, or
\* one empty quoted field when it printed only a line break.
RowOf(i) ==
    IF futures[i].result.text = <<"\n">> THEN <<"\"", "\"">>
    ELSE DataLine(Cmd(param_combinations[i]))

\* The futures in submission order.
Indices == [i \in Submitted |-> i]

StrictlyIncreasing(s) == \A m, n \in DOMAIN s : m < n => s[m] < s[n]

Positions(s, x) == {n \in DOMAIN s : s[n] = x}

\* ------------------------------------------------------------------ claims
\* C1: the data rows of the file are the rows of the invocations that
\* produced one, in submission order, whatever the completion order: the
\* sources of the rows are strictly increasing positions, every row is the
\* row of its source, and at the end of a completed sweep the sources are
\* exactly the invocations that succeeded with output.
C1_RowsInSubmissionOrder ==
    /\ StrictlyIncreasing(hist.rowSrc)
    /\ DataRows = [n \in DOMAIN hist.rowSrc |-> RowOf(hist.rowSrc[n])]
    /\ (SweepOver /\ SweepRan) =>
          hist.rowSrc = SelectSeq(Indices, LAMBDA i : SucceededWithOutput(i))

\* C1 witness: three rows on file in submission order although the first
\* invocation finished last.
C1_Witness ==
    /\ SweepOver
    /\ hist.rowSrc = <<1, 2, 3>>
    /\ hist.overtaken = {1}
    /\ threads = 2
    /\ Len(disk) = 4

\* C2: in a step that appends the row of position j, every position i < j
\* is already resolved and consumed by the collection loop.
C2_PositionalBlocking ==
    [][ Len(hist.rowSrc') > Len(hist.rowSrc) =>
          \A i \in 1..(hist.rowSrc'[Len(hist.rowSrc')] - 1) :
              Resolved(i) /\ i \in hist.consumed ]_vars

\* C2 witness: the row of position 2 is on file, written after position 1
\* was consumed, although invocation 2 finished before invocation 1.
C2_Witness ==
    /\ hist.rowSrc = <<2>>
    /\ 1 \in hist.overtaken
    /\ 1 \in hist.consumed
    /\ Len(disk) = 2

\* C3: at most args.threads invocations are started and not yet finished.
C3_InFlightBounded == Cardinality(InFlight) <= threads

\* C3 witness: the pool is full (as many running invocations as threads,
\* more than one) and a further tuple waits in the queue.
C3_Witness ==
    /\ threads = MaxThreads
    /\ Cardinality(InFlight) = threads
    /\ queue # <<>>

\* C4 as stated: rows <= tuples submitted, and at the end equality iff every
\* invocation succeeded (zero exit, no exception, no timeout).
C4_RowsEqualIffAllSucceeded ==
    /\ Len(DataRows) <= Len(futures)
    /\ SweepOver =>
          (Len(DataRows) = Len(futures) <=> \A i \in Submitted : Succeeded(i))

\* C4 amended: rows <= tuples submitted, and at the end equality iff every
\* invocation succeeded and printed a non-empty standard output.
C4_RowsEqualIffAllSucceededWithOutput ==
    /\ Len(DataRows) <= Len(futures)
    /\ SweepOver =>
          (Len(DataRows) = Len(futures)
             <=> \A i \in Submitted : SucceededWithOutput(i))

\* C4 witness: a finished sweep of three tuples, all successful, where one
\* printed nothing: two rows.
C4_Witness ==
    /\ SweepOver
    /\ Len(futures) = 3
    /\ \A i \in Submitted : Succeeded(i)
    /\ futures[2].result.text = <<>>
    /\ Len(DataRows) = 2

\* The sweep is completed: main() has ended, and if the sweep ran it ended
\* with status 0, every tuple submitted, invoked once, resolved and consumed.
C5_Completed ==
    /\ SweepOver
    /\ SweepRan =>
         /\ exitCode = 0
         /\ Len(futures) = Len(ParamCombinations(lambdas, taus))
         /\ \A i \in Submitted :
                hist.invoked[i] = 1 /\ Resolved(i) /\ i \in hist.consumed

\* Steps taken so far, as a function of the state: every step of a thread
\* raises it, and it is bounded, so fair scheduling cannot run forever.
PcRank ==
    CASE pc = "mkdir" -> 0 [] pc = "header" -> 1 [] pc = "grid" -> 2
      [] pc = "executor" -> 3 [] pc = "submit" -> 4 [] pc = "open" -> 5
      [] pc = "result" -> 6 [] pc = "writerow" -> 7 [] pc = "flush" -> 8
      [] pc = "close" -> 9 [] pc = "shutdown" -> 10 [] pc = "exit" -> 11

Progress ==
    (IF pc \in {"close", "shutdown", "exit"} THEN 3 * (Len(futures) + 1) ELSE 3 * k)
    + PcRank + 3 * Len(futures) - Len(queue)
    + Cardinality({i \in Submitted : futures[i].state # "PENDING"})
    + Cardinality({i \in Submitted : futures[i].state = "FINISHED"})

\* ENABLED Next, written out guard by guard: the main thread can step
\* unless it waits for an unfinished future or for a busy pool, a worker can
\* step when it holds a work item or when it is idle and work is queued.
CanStep ==
    \/ pc \in {"mkdir", "header", "grid", "executor", "submit", "open",
               "writerow", "flush", "close"}
    \/ pc = "result" /\ futures[k].state = "FINISHED"
    \/ pc = "shutdown" /\ queue = <<>> /\ \A w \in DOMAIN workers : workers[w] = 0
    \/ \E w \in DOMAIN workers : workers[w] # 0 \/ queue # <<>>

\* C5: a Failure leaves every other invocation as it was (no future is
\* removed, a resolved outcome never changes, and the step that resolves one
\* invocation as a Failure changes no other future and drops nothing from
\* the queue), and under fair scheduling the sweep ends with every tuple
\* submitted, invoked once, resolved and consumed: every step is progress
\* towards the end, and while the sweep is not completed a step is possible.
C5_FailureIsolationAndCompletion ==
    /\ [][ /\ \A i \in Submitted :
                /\ i \in DOMAIN futures'
                /\ Resolved(i) => futures'[i] = futures[i]
                /\ \A j \in Submitted \ {i} :
                     (~Resolved(j) /\ futures'[j].state = "FINISHED"
                        /\ futures'[j].result.isNone)
                     => (futures'[i] = futures[i] /\ queue' = queue)
           /\ Progress' > Progress ]_vars
    /\ [](C5_Completed \/ CanStep)

\* The end C5 speaks of, stated directly: under FairSpec every behaviour
\* reaches a completed sweep.
C5_EventuallyCompleted == <>C5_Completed

\* C5 witness: a finished sweep of three tuples on two workers in which the
\* first invocation failed before the others finished, the third still
\* queued, and all three were invoked and consumed.
C5_Witness ==
    /\ C5_Completed
    /\ threads = 2
    /\ Len(futures) = 3
    /\ Failed(1)
    /\ hist.overtaken = {}
    /\ Succeeded(2) /\ Succeeded(3)
    /\ hist.consumed = {1, 2, 3}

\* C6: every submitted tuple is invoked at most once, and exactly once by
\* the end of the sweep; no tuple is submitted twice; a failed invocation is
\* the source of no row, and the file holds no row without a source.
C6_NoRetryNoPlaceholder ==
    /\ Len(futures) <= Len(param_combinations)
    /\ \A i \in Submitted : hist.invoked[i] <= 1
    /\ \A m, n \in DOMAIN queue : m # n => queue[m] # queue[n]
    /\ (SweepOver /\ SweepRan) =>
          /\ Len(futures) = Len(param_combinations)
          /\ \A i \in Submitted : hist.invoked[i] = 1
    /\ \A i \in Submitted : Failed(i) => Positions(hist.rowSrc, i) = {}
    /\ Len(DataRows) = Len(hist.rowSrc)

\* C6 witness: a finished sweep of three tuples, the second failed, each
\* invoked once, two rows.
C6_Witness ==
    /\ SweepOver
    /\ Len(futures) = 3
    /\ Failed(2)
    /\ \A i \in Submitted : hist.invoked[i] = 1
    /\ hist.rowSrc = <<1, 3>>
    /\ Len(disk) = 3

\* The scenario of C7: two tuples, one worker, the first invocation timed
\* out and the second printed its data line.
C7_Scenario ==
    /\ threads = 1
    /\ Len(futures) = 2
    /\ hist.kind = <<"timeout", "exit0">>
    /\ futures[2].result.text = Append(DataLine(Cmd(param_combinations[2])), "\n")

\* C7: an invocation that timed out returned None without raising and is the
\* source of no row; at the end of the sweep every invocation that succeeded
\* with output has its row on file; in the scenario the file ends as the
\* header and the one row of the second tuple.
C7_TimeoutContributesNoRow ==
    /\ \A i \in Submitted :
          hist.kind[i] = "timeout" =>
             /\ futures[i].result = None
             /\ ~futures[i].exc
             /\ Positions(hist.rowSrc, i) = {}
    /\ (SweepOver /\ SweepRan) =>
          \A j \in Submitted :
             SucceededWithOutput(j) =>
                \E n \in DOMAIN hist.rowSrc :
                    hist.rowSrc[n] = j /\ disk[n + 1] = RowOf(j)
    /\ (SweepOver /\ C7_Scenario) =>
          disk = <<HeaderLine, DataLine(Cmd(param_combinations[2]))>>

\* C7 witness: the scenario at the end of the sweep.
C7_Witness ==
    /\ SweepOver
    /\ C7_Scenario
    /\ Len(disk) = 2

\* C8: an invocation that failed in any of the three ways is resolved to
\* None without an exception and is the source of no row; no exception ever
\* unwinds main(), and a sweep that ran ends with exit status 0.
C8_FailuresConverted ==
    /\ \A i \in Submitted :
          Failed(i) =>
             /\ Resolved(i)
             /\ futures[i].result = None
             /\ ~futures[i].exc
             /\ Positions(hist.rowSrc, i) = {}
    /\ ~raised
    /\ (SweepOver /\ SweepRan) => exitCode = 0

\* C8 witness: a finished sweep whose three invocations failed in the three
\* ways: exit status 0 and a file of the header alone.
C8_Witness ==
    /\ SweepOver
    /\ exitCode = 0
    /\ hist.kind = <<"nonzero", "timeout", "oserror">>
    /\ disk = <<HeaderLine>>

\* C9: whenever an invocation has been submitted or started, the file
\* exists and its row 0 is the header.
C9_HeaderBeforeInvocations ==
    (futures # <<>> \/ queue # <<>> \/ \E i \in Submitted : hist.invoked[i] > 0)
    => (disk # <<>> /\ disk[1] = HeaderLine)

\* C9 witness: an invocation runs while the tuples are still being
\* submitted, over a file that held an old line before the sweep: the file
\* is the header alone.
C9_Witness ==
    /\ pc = "submit"
    /\ InFlight # {}
    /\ disk = <<HeaderLine>>

\* C10: every write to the file is made by the main thread, and every line
\* of the file comes from such a write.
C10_SingleWriter ==
    /\ \A n \in DOMAIN hist.writers : hist.writers[n] = MainThread
    /\ HeaderWritten => Len(disk \o buf) = Len(hist.writers)

\* C10 witness: the main thread has appended a row and not yet flushed it
\* while a worker runs an invocation.
C10_Witness ==
    /\ pc = "flush"
    /\ Len(hist.writers) >= 2
    /\ buf # <<>>
    /\ InFlight # {}

\* C11: the file is flushed after every appended row: what a crash leaves
\* behind (the flushed lines) is the header followed by the rows appended so
\* far, minus at most the one row that is between writerow and flush.
C11_AtMostOneRowUnflushed ==
    HeaderWritten =>
       /\ Len(buf) <= 1
       /\ buf # <<>> => pc = "flush"
       /\ \E lost \in 0..1 :
             disk = <<HeaderLine>>
                    \o [n \in 1..(Len(hist.rowSrc) - lost) |-> RowOf(hist.rowSrc[n])]

\* C11 witness: the second row is appended and not yet flushed while the
\* first row is already on disk behind the header.
C11_Witness ==
    /\ pc = "flush"
    /\ Len(hist.rowSrc) = 2
    /\ Len(buf) = 1
    /\ disk = <<HeaderLine, RowOf(hist.rowSrc[1])>>

\* C12 as stated: the harness exits 0 whenever the output file could be
\* written, and exits non-zero only when it could not, for every value of
\* the options, the worker count included.
C12_NonZeroOnlyWhenFileUnwritable ==
    SweepOver =>
       /\ exitCode # 0 => ~pathOk
       /\ HeaderWritten => exitCode = 0

\* C13: once the two loops have run, param_combinations has
\* Len(lambdas) * Len(taus) entries, entry (a - 1) * Len(taus) + b is
\* (lambdas[a], taus[b]) (the threshold varies fastest), no combination
\* occurs twice, and no task is submitted before the list is complete.
C13_GridIsNestedProduct ==
    LET nl == Len(lambdas)
        nt == Len(taus)
    IN  IF pc \in {"mkdir", "header", "grid"}
        THEN futures = <<>>
        ELSE /\ Len(param_combinations) = nl * nt
             /\ \A a \in 1..nl, b \in 1..nt :
                   param_combinations[(a - 1) * nt + b] = <<lambdas[a], taus[b]>>
             /\ \A m, n \in DOMAIN param_combinations :
                   m # n => param_combinations[m] # param_combinations[n]
             /\ Len(futures) <= Len(param_combinations)

\* C13 witness: a 2 x 3 grid, all six tuples dispatched, the second tuple
\* (40, 11) and the fourth (41, 10).
C13_Witness ==
    /\ pc = "open"
    /\ Len(lambdas) = 2 /\ Len(taus) = 3
    /\ Len(futures) = 6
    /\ param_combinations[2] = <<40, 11>>
    /\ param_combinations[4] = <<41, 10>>

\* The error text the message of a failure of the given kind carries: the
\* child's captured error stream, or the description of the exception.
ErrorText(kind) == IF kind = "nonzero" THEN "stderr" ELSE kind

\* C14: the step in which an invocation ends in a Failure of any kind, and
\* no other step, prints exactly one message; the message names the command
\* line of that invocation's tuple, which no other tuple of the grid has,
\* and carries the error text; and no data row ever comes from a failed
\* invocation.
C14_FailuresReported ==
    [][ LET failing == {i \in Submitted : hist.kind[i] = "" /\ hist'.kind[i] \in FailureKinds}
        IN  /\ failing = {} => log' = log
            /\ \A i \in failing :
                  /\ Len(log') = Len(log) + 1
                  /\ SubSeq(log', 1, Len(log)) = log
                  /\ log'[Len(log')].cmd = Cmd(param_combinations[i])
                  /\ log'[Len(log')].text = ErrorText(hist'.kind[i])
                  /\ \A j \in DOMAIN param_combinations :
                        Cmd(param_combinations[j]) = log'[Len(log')].cmd => j = i
            /\ \A i \in Submitted : Failed(i) => Positions(hist'.rowSrc, i) = {}
      ]_vars

\* C14 witness: the second invocation has run into the timeout while the
\* first is still unresolved and nothing has been collected: the message
\* naming (40, 11) is already printed, and the file is the header alone.
C14_Witness ==
    /\ Len(futures) >= 2
    /\ hist.kind[1] = ""
    /\ hist.kind[2] = "timeout"
    /\ hist.consumed = {}
    /\ log = << [msg |-> "Unexpected error with", cmd |-> Cmd(<<40, 11>>),
                 text |-> "timeout"] >>
    /\ disk = <<HeaderLine>>

\* The text s without the run of whitespace at its start and the run of
\* whitespace at its end.
Trimmed(s) ==
    LET cuts == {ab \in (0..Len(s)) \X (0..Len(s)) :
                   /\ ab[1] + ab[2] <= Len(s)
                   /\ \A n \in 1..ab[1] : s[n] \in Whitespace
                   /\ \A n \in (Len(s) - ab[2] + 1)..Len(s) : s[n] \in Whitespace
                   /\ \/ ab[1] + ab[2] = Len(s)
                      \/ /\ s[ab[1] + 1] \notin Whitespace
                         /\ s[Len(s) - ab[2]] \notin Whitespace}
        ab == CHOOSE c \in cuts : TRUE
    IN  SubSeq(s, ab[1] + 1, Len(s) - ab[2])

\* The pieces of s between its commas: one more piece than s has commas.
FieldsBetweenCommas(s) ==
    LET commas == {n \in 1..Len(s) : s[n] = ","}
        Cut(m) == IF m = 0 THEN 0
                  ELSE IF m > Cardinality(commas) THEN Len(s) + 1
                  ELSE CHOOSE n \in commas :
                          Cardinality({c \in commas : c <= n}) = m
    IN  [m \in 1..(Cardinality(commas) + 1) |->
            SubSeq(s, Cut(m - 1) + 1, Cut(m) - 1)]

\* C15 as stated: when the sweep of the single tuple (40, 10), whose child
\* exited with status 0, is over, the file is the header and one row: the
\* fields of the text without its trailing line break, split at the commas.
C15_RowIsTextWithoutTrailingNewline ==
    SweepOver =>
       disk = <<HeaderLine,
                FormatRow(FieldsBetweenCommas(
                             StripTrailingNewline(futures[1].result.text)))>>

\* C15 (amended): a Success with a non-empty text appends exactly one row,
\* whose fields are the pieces between the commas of the text without its
\* leading and trailing whitespace; a Success with an empty text appends no
\* row; and the child that prints 40,10,1.1,2.2,3.3 leaves the header line
\* lambda,tau,t_open_1_8,t_open_1_4,t_open_1_2 and the one row
\* 40,10,1.1,2.2,3.3.
C15_RowIsTextStrippedAndSplit ==
    LET t == futures[1].result.text
        row == FormatRow(FieldsBetweenCommas(Trimmed(t)))
    IN  /\ disk[1] = <<"lambda", ",", "tau", ",", "t_open_1_8", ",",
                       "t_open_1_4", ",", "t_open_1_2">>
        /\ Tail(disk \o buf) \in {<<>>, <<row>>}
        /\ SweepOver => Tail(disk) = IF t = <<>> THEN <<>> ELSE <<row>>
        /\ (SweepOver /\ t = <<"4", "0", ",", "1", "0", ",", "1.1", ",", "2.2",
                               ",", "3.3", "\n">>)
           => Tail(disk) = << <<"4", "0", ",", "1", "0", ",", "1.1", ",", "2.2",
                                ",", "3.3">> >>

\* C15 witness: the sweep is over, the child of (40, 10) printed its data
\* line and a line break, and the file is the header and that data line.
C15_Witness ==
    /\ SweepOver
    /\ exitCode = 0
    /\ param_combinations = <<<<40, 10>>>>
    /\ futures[1].result.text = Append(DataLine(Cmd(<<40, 10>>)), "\n")
    /\ hist.rowSrc = <<1>>
    /\ disk = <<HeaderLine, DataLine(Cmd(<<40, 10>>))>>

\* C16: an invocation that exited with status 0 and printed nothing is
\* resolved to the empty text without an exception, is the source of no row
\* once collected, and no printed message names its command line.
C16_EmptyOutputDroppedSilently ==
    \A i \in Submitted :
       (Succeeded(i) /\ futures[i].result.text = <<>>) =>
          /\ futures[i].result = Text(<<>>)
          /\ ~futures[i].exc
          /\ Positions(hist.rowSrc, i) = {}
          /\ \A n \in DOMAIN log : log[n].cmd # Cmd(param_combinations[i])
          /\ (i \in hist.consumed /\ cur = i) => pc # "writerow"

\* C16 witness: a finished sweep of two tuples, both children exited with
\* status 0, the first printed nothing: exit status 0, nothing printed by
\* the harness, and the file is the header and the row of the second tuple.
C16_Witness ==
    /\ SweepOver
    /\ exitCode = 0
    /\ hist.kind = <<"exit0", "exit0">>
    /\ hist.consumed = {1, 2}
    /\ futures[1].result = Text(<<>>)
    /\ log = <<>>
    /\ disk = <<HeaderLine, DataLine(Cmd(<<40, 11>>))>>

\* Invocation i has been started: a worker has called run_benchmark for it.
Started(i) == hist.invoked[i] > 0

\* Work item i has left the pool's queue.
Taken(i) == i \in Submitted /\ \A n \in DOMAIN queue : queue[n] # i

\* Taken by a worker that has not launched it yet.
Held == {i \in Submitted : Taken(i) /\ ~Started(i)}

\* C17 as stated: invocation j is started only when every invocation
\* submitted before it has been started.
C17_StartedInSubmissionOrder ==
    \A j \in Submitted : Started(j) => \A i \in 1..(j - 1) : Started(i)

\* C17 (amended): the queue always holds the most recently submitted work
\* items in submission order, so item j is taken only when every item
\* submitted before it has been taken; a taken item that is not started yet
\* is held by a worker of its own, so fewer than `threads` invocations
\* submitted before a started one are not started; and with one worker an
\* invocation is started only when every invocation submitted before it is
\* finished.
C17_TakenInSubmissionOrder ==
    /\ queue = [n \in 1..Len(queue) |-> Len(futures) - Len(queue) + n]
    /\ \A j \in Submitted : Taken(j) => \A i \in 1..(j - 1) : Taken(i)
    /\ Held = {0 - workers[w] : w \in {v \in DOMAIN workers : workers[v] < 0}}
    /\ \A j \in Submitted :
          Started(j) => Cardinality({i \in 1..(j - 1) : ~Started(i)}) < threads
    /\ threads = 1 =>
          \A j \in Submitted : Started(j) => \A i \in 1..(j - 1) : Resolved(i)

\* C17 witness: two workers hold the first two work items, and the second
\* invocation has been started while the first has not.
C17_Witness ==
    /\ threads = 2
    /\ Len(futures) >= 2
    /\ Taken(1)
    /\ ~Started(1)
    /\ Started(2)
    /\ futures[2].state = "RUNNING"

\* The lines written to the file, flushed or not.
Written == disk \o buf

\* The file is the header line, once, followed by the rows of invocations
\* collected in this run.
HeaderThenRowsOfThisRun ==
    /\ Written[1] = HeaderLine
    /\ Cardinality({n \in DOMAIN Written : Written[n] = HeaderLine}) = 1
    /\ Len(Written) = 1 + Len(hist.rowSrc)
    /\ \A n \in DOMAIN hist.rowSrc :
          /\ Written[n + 1] = RowOf(hist.rowSrc[n])
          /\ hist.rowSrc[n] \in hist.consumed

\* C18: the step that writes the header leaves a file of the header line
\* alone, whatever the file held; from then on every step keeps the lines
\* already written and adds lines only at the end; and after every step of
\* a run that has written its header, the first line is the header, the
\* header occurs once, and line n + 1 is the row of the n-th invocation
\* collected with output in this run.
C18_TruncatedThenAppendOnly ==
    [][ /\ (~HeaderWritten /\ HeaderWritten') => (disk' = <<HeaderLine>> /\ buf' = <<>>)
        /\ ~HeaderWritten' => (disk' = disk /\ buf' = <<>>)
        /\ HeaderWritten =>
              /\ Len(Written') >= Len(Written)
              /\ SubSeq(Written', 1, Len(Written)) = Written
              /\ Len(disk') >= Len(disk)
        /\ HeaderWritten' => HeaderThenRowsOfThisRun'
      ]_vars

\* C18 witness: the sweep is over and the file is the header and the rows
\* of two invocations of this run, the second one an empty field.
C18_Witness ==
    /\ SweepOver
    /\ ~fileOpen
    /\ Len(hist.writers) = 3
    /\ hist.rowSrc = <<1, 3>>
    /\ disk = <<HeaderLine, DataLine(Cmd(<<40, 10>>)), <<"\"", "\"">>>>

====
